---- MODULE Spec2Model ----
(***************************************************************************)
(* Model of shaping.py: pad_max_shape(arrays, before, after, value,        *)
(* tie_break).  One call is one behaviour: the state after Init is the     *)
(* call with its arguments bound, Plan is lines 154-163 (the pad plan),    *)
(* PadNext / PadRaise are the iterations of the list comprehension of line *)
(* 164 (np.pad of one array), Return hands the finished list back.         *)
(*                                                                         *)
(* Fractions are exact rationals [num, den] with den a power of two: on    *)
(* these the float64 arithmetic of lines 156-161 (1 - after, margin *      *)
(* before) is exact, so the rational arithmetic below is what numpy        *)
(* computes.                                                               *)
(***************************************************************************)
EXTENDS Integers, Sequences, FiniteSets, TLC

VARIABLES arrays, arg_before, arg_after, value, tie_break,
          pc, before, max_size, margin, pad, out, ret

vars == <<arrays, arg_before, arg_after, value, tie_break,
          pc, before, max_size, margin, pad, out, ret>>

(* ------------------------------ bounds --------------------------------- *)
MaxN == 2
MaxRank == 2
MaxSize == 2
MaxLong == 5

(* ----------------------------- fractions ------------------------------- *)
Frac(n, d) == [num |-> n, den |-> d]

Zero == Frac(0, 1)
Quarter == Frac(1, 4)
Half == Frac(1, 2)
ThreeQuarters == Frac(3, 4)
One == Frac(1, 1)

InRangeFracs == {Zero, Quarter, Half, ThreeQuarters, One}
OutOfRangeFracs == {Frac(-1, 2), Frac(3, 2)}
Fracs == InRangeFracs \cup OutOfRangeFracs
FormFracs == {Zero, Half, One}
MatrixFracs == {Zero, Half}

InUnit(f) == 0 <= f.num /\ f.num <= f.den

TieBreaks == {"floor", "ceil", "rint", "trunc"}

(* np.floor, np.ceil, np.rint, np.trunc of the rational n / d (d > 0),     *)
(* followed by .astype(int)                                                *)
Floor(n, d) == n \div d

(* slip: "round up" written as floor + 1, wrong on whole numbers *)
CeilFloorPlusOne(n, d) == Floor(n, d) + 1

Ceil(n, d) == -((-n) \div d)

Rint(n, d) ==
    LET f == Floor(n, d)
        rem == n - f * d
    IN  IF 2 * rem < d THEN f
        ELSE IF 2 * rem > d THEN f + 1
        ELSE IF f % 2 = 0 THEN f ELSE f + 1

Trunc(n, d) == IF n >= 0 THEN Floor(n, d) ELSE Ceil(n, d)

(* slip: np.floor hard-wired, the tie_break argument ignored *)
TieBreakFloorOnly(tb, n, d) == Floor(n, d)

TieBreak(tb, n, d) ==
    CASE tb = "floor" -> Floor(n, d)
      [] tb = "ceil"  -> Ceil(n, d)
      [] tb = "rint"  -> Rint(n, d)
      [] tb = "trunc" -> Trunc(n, d)

(* ------------------------------- arrays -------------------------------- *)
RECURSIVE SeqMax(_)
SeqMax(s) ==
    IF Len(s) = 0 THEN 0
    ELSE LET m == SeqMax(Tail(s)) IN IF Head(s) > m THEN Head(s) ELSE m

(* the index tuples of an array of the given shape, 0-based as in numpy *)
IndexSet(shape) ==
    {idx \in [DOMAIN shape -> 0..SeqMax(shape)] :
        \A r \in DOMAIN shape : idx[r] < shape[r]}

RECURSIVE Digits(_)
Digits(idx) ==
    IF Len(idx) = 0 THEN 0 ELSE Head(idx) + 10 * Digits(Tail(idx))

(* input array number i: every cell holds a value that names the array and *)
(* the cell, so a moved or swapped cell is visible                         *)
MakeArray(i, shape) ==
    [shape |-> shape,
     data  |-> [idx \in IndexSet(shape) |-> 1000 * i + Digits(idx)]]

(* ------------------------- the fraction arguments ---------------------- *)
NoneArg == [form |-> "none", v |-> <<>>]
ScalarArg(f) == [form |-> "scalar", v |-> f]
VectorArg(s) == [form |-> "vector", v |-> s]
MatrixArg(m) == [form |-> "matrix", v |-> m]

(* slip: a per-axis vector read in reversed axis order *)
BroadcastReversedAxes(arg, n, rk) ==
    [i \in 1..n |-> [r \in 1..rk |->
        CASE arg.form = "scalar" -> arg.v
          [] arg.form = "vector" ->
                IF Len(arg.v) = 1 THEN arg.v[1] ELSE arg.v[Len(arg.v) + 1 - r]
          [] arg.form = "matrix" ->
                LET row == IF Len(arg.v) = 1 THEN arg.v[1] ELSE arg.v[i]
                IN  IF Len(row) = 1 THEN row[1] ELSE row[r]]]

(* numpy broadcasting of a fraction argument against the (n, rk) matrix of *)
(* line 156 / 158: trailing dimensions are aligned, size 1 is stretched    *)
Broadcast(arg, n, rk) ==
    [i \in 1..n |-> [r \in 1..rk |->
        CASE arg.form = "scalar" -> arg.v
          [] arg.form = "vector" ->
                IF Len(arg.v) = 1 THEN arg.v[1] ELSE arg.v[r]
          [] arg.form = "matrix" ->
                LET row == IF Len(arg.v) = 1 THEN arg.v[1] ELSE arg.v[i]
                IN  IF Len(row) = 1 THEN row[1] ELSE row[r]]]

(* np.ones_like(shapes) - after *)
OneMinus(m) ==
    [i \in DOMAIN m |-> [r \in DOMAIN m[i] |->
        Frac(m[i][r].den - m[i][r].num, m[i][r].den)]]

(* slip: "if before:" instead of "if before is not None", so before=0    *)
(* counts as omitted                                                       *)
EffectiveBeforeTruthy(b, a, n, rk) ==
    IF b.form # "none" /\ ~(b.form = "scalar" /\ b.v.num = 0)
    THEN Broadcast(b, n, rk)
    ELSE OneMinus(Broadcast(a, n, rk))

(* lines 155-158 *)
EffectiveBefore(b, a, n, rk) ==
    IF b.form # "none" THEN Broadcast(b, n, rk)
    ELSE OneMinus(Broadcast(a, n, rk))

(* line 154 *)
Shapes(arrs) == [i \in DOMAIN arrs |-> arrs[i].shape]

Rank(arrs) == Len(arrs[1].shape)

(* slip: the first array's shape taken as the target *)
ShapeMaxFirst(shp) == shp[1]

(* line 159: shapes.max(axis=0) *)
ShapeMax(shp) ==
    [r \in DOMAIN shp[1] |->
        CHOOSE m \in {shp[i][r] : i \in DOMAIN shp} :
            \A i \in DOMAIN shp : shp[i][r] <= m]

(* slip: operands of the subtraction swapped *)
MarginFlipped(mx, shp) ==
    [i \in DOMAIN shp |-> [r \in DOMAIN mx |-> shp[i][r] - mx[r]]]

(* line 160 *)
Margin(mx, shp) ==
    [i \in DOMAIN shp |-> [r \in DOMAIN mx |-> mx[r] - shp[i][r]]]

(* line 161 *)
PadBefore(mg, bf, tb) ==
    [i \in DOMAIN mg |-> [r \in DOMAIN mg[i] |->
        TieBreak(tb, mg[i][r] * bf[i][r].num, bf[i][r].den)]]

(* slip: operands of the subtraction swapped *)
PadAfterSwapped(mg, pb) ==
    [i \in DOMAIN mg |-> [r \in DOMAIN mg[i] |-> pb[i][r] - mg[i][r]]]

(* line 162 *)
PadAfter(mg, pb) ==
    [i \in DOMAIN mg |-> [r \in DOMAIN mg[i] |-> mg[i][r] - pb[i][r]]]

(* line 163 *)
Stack(pb, pa) ==
    [i \in DOMAIN pb |-> [r \in DOMAIN pb[i] |-> <<pb[i][r], pa[i][r]>>]]

(* slip: only the before widths are checked *)
PadRejectsBeforeOnly(w) == \E r \in DOMAIN w : w[r][1] < 0

(* np.pad rejects a negative pad width with ValueError *)
PadRejects(w) == \E r \in DOMAIN w : w[r][1] < 0 \/ w[r][2] < 0

(* slip: constant_values not passed on, np.pad fills with its default 0 *)
NpPadZeroFill(x, w, val) ==
    LET newshape == [r \in DOMAIN x.shape |-> w[r][1] + x.shape[r] + w[r][2]]
        inside(idx) == \A r \in DOMAIN w :
                          /\ w[r][1] <= idx[r]
                          /\ idx[r] < w[r][1] + x.shape[r]
    IN  [shape |-> newshape,
         data  |-> [idx \in IndexSet(newshape) |->
                      IF inside(idx)
                      THEN x.data[[r \in DOMAIN w |-> idx[r] - w[r][1]]]
                      ELSE 0]]

(* np.pad(x, w, mode='constant', constant_values=val) for accepted w *)
NpPad(x, w, val) ==
    LET newshape == [r \in DOMAIN x.shape |-> w[r][1] + x.shape[r] + w[r][2]]
        inside(idx) == \A r \in DOMAIN w :
                          /\ w[r][1] <= idx[r]
                          /\ idx[r] < w[r][1] + x.shape[r]
    IN  [shape |-> newshape,
         data  |-> [idx \in IndexSet(newshape) |->
                      IF inside(idx)
                      THEN x.data[[r \in DOMAIN w |-> idx[r] - w[r][1]]]
                      ELSE val]]

(* ------------------------------- inputs -------------------------------- *)
Pending == [kind |-> "pending", arrays |-> <<>>]

Locals ==
    /\ pc = "call"
    /\ before = <<>>
    /\ max_size = <<>>
    /\ margin = <<>>
    /\ pad = <<>>
    /\ out = <<>>
    /\ ret = Pending

(* two arrays of any shapes of rank 2 and up, one fraction for every array *)
(* and axis                                                                *)
InitGeneral ==
    /\ \E rk \in 2..MaxRank :
         \E box \in [1..2 -> [1..2 -> 0..MaxSize]] :
            arrays = [i \in 1..2 |->
                        MakeArray(i, [r \in 1..rk |-> box[i][IF r = 1 THEN 1 ELSE 2]])]
    /\ \/ /\ arg_before = NoneArg
          /\ arg_after \in {ScalarArg(One), ScalarArg(Quarter)}
       \/ /\ arg_before \in {ScalarArg(f) : f \in {Zero, Half, One} \cup OutOfRangeFracs}
          /\ arg_after = ScalarArg(One)
    /\ value = 9
    /\ tie_break \in TieBreaks
    /\ Locals

(* square / cubic arrays of growing size as in the doctests, the fraction  *)
(* given per axis or per array and axis                                    *)
InitForms ==
    /\ \E n \in 1..MaxN, rk \in 1..MaxRank :
         /\ arrays = [i \in 1..n |-> MakeArray(i, [r \in 1..rk |-> i])]
         /\ \E arg \in {VectorArg(s) : s \in [1..rk -> FormFracs]}
                  \cup {MatrixArg(m) : m \in [1..n -> [1..rk -> MatrixFracs]]} :
               \/ arg_before = arg /\ arg_after = ScalarArg(One)
               \/ arg_before = NoneArg /\ arg_after = arg
    /\ value = 0
    /\ tie_break \in TieBreaks
    /\ Locals

(* two 1-D arrays of any length up to MaxLong, one fraction for both *)
InitLong ==
    /\ \E len \in [1..2 -> 0..MaxLong] :
          arrays = [i \in 1..2 |-> MakeArray(i, <<len[i]>>)]
    /\ \/ /\ arg_before = NoneArg
          /\ arg_after \in {ScalarArg(f) : f \in Fracs}
       \/ /\ arg_before \in {ScalarArg(f) : f \in Fracs}
          /\ arg_after \in {ScalarArg(One), ScalarArg(Quarter)}
    /\ value \in {0, 9}
    /\ tie_break \in TieBreaks
    /\ Locals

Init == InitGeneral \/ InitForms \/ InitLong

(* ------------------------------- actions ------------------------------- *)
(* lines 154-163 *)
Plan ==
    /\ pc = "call"
    /\ LET shp == Shapes(arrays)
           bf  == EffectiveBefore(arg_before, arg_after, Len(arrays), Rank(arrays))
           mx  == ShapeMax(shp)
           mg  == Margin(mx, shp)
           pb  == PadBefore(mg, bf, tie_break)
           pa  == PadAfter(mg, pb)
       IN  /\ before' = bf
           /\ max_size' = mx
           /\ margin' = mg
           /\ pad' = Stack(pb, pa)
    /\ pc' = "pad"
    /\ UNCHANGED <<arrays, arg_before, arg_after, value, tie_break, out, ret>>

(* line 164, one iteration: np.pad returns the padded array *)
PadNext ==
    /\ pc = "pad"
    /\ Len(out) < Len(arrays)
    /\ LET k == Len(out) + 1
       IN  /\ ~PadRejects(pad[k])
           /\ out' = Append(out, NpPad(arrays[k], pad[k], value))
    /\ UNCHANGED <<arrays, arg_before, arg_after, value, tie_break,
                   pc, before, max_size, margin, pad, ret>>

(* slip: the exception swallowed, the arrays padded so far handed back *)
PadRaisePartial ==
    /\ pc = "pad"
    /\ Len(out) < Len(arrays)
    /\ PadRejects(pad[Len(out) + 1])
    /\ pc' = "failed"
    /\ out' = out
    /\ ret' = [kind |-> "list", arrays |-> out]
    /\ UNCHANGED <<arrays, arg_before, arg_after, value, tie_break,
                   before, max_size, margin, pad>>

(* line 164, one iteration: np.pad raises, the exception leaves the call *)
PadRaise ==
    /\ pc = "pad"
    /\ Len(out) < Len(arrays)
    /\ PadRejects(pad[Len(out) + 1])
    /\ pc' = "failed"
    /\ out' = <<>>
    /\ ret' = [kind |-> "ValueError", arrays |-> <<>>]
    /\ UNCHANGED <<arrays, arg_before, arg_after, value, tie_break,
                   before, max_size, margin, pad>>

(* line 164: the comprehension is exhausted, the list is returned *)
Return ==
    /\ pc = "pad"
    /\ Len(out) = Len(arrays)
    /\ pc' = "done"
    /\ ret' = [kind |-> "list", arrays |-> out]
    /\ UNCHANGED <<arrays, arg_before, arg_after, value, tie_break,
                   before, max_size, margin, pad, out>>

Next == Plan \/ PadNext \/ PadRaise \/ Return

Spec == Init /\ [][Next]_vars

(* ---------------- what the caller sees, stated from outside ------------ *)
N == Len(arrays)

R == Len(arrays[1].shape)

Planned == pc # "call"

Size(i, r) == arrays[i].shape[r]

(* the per-axis maximum of the input shapes *)
Target(r) == SeqMax([i \in 1..N |-> Size(i, r)])

Missing(i, r) == Target(r) - Size(i, r)

AtTarget(i) == \A r \in 1..R : Size(i, r) = Target(r)

(* the argument the fractions come from, and the entry meant for (i, r) *)
GivenArg == IF arg_before.form # "none" THEN arg_before ELSE arg_after

Entry(arg, i, r) ==
    CASE arg.form = "scalar" -> arg.v
      [] arg.form = "vector" -> arg.v[r]
      [] arg.form = "matrix" -> arg.v[i][r]

(* x = 1 - f as rationals *)
IsOneMinus(x, f) == x.num * f.den + f.num * x.den = x.den * f.den

SameFrac(x, f) == x.num * f.den = f.num * x.den

IsBeforeFraction(x, i, r) ==
    IF arg_before.form # "none" THEN SameFrac(x, Entry(arg_before, i, r))
    ELSE IsOneMinus(x, Entry(arg_after, i, r))

(* the before-fraction of (i, r) as a rational in lowest terms *)
BeforeFraction(i, r) ==
    CHOOSE x \in Fracs : IsBeforeFraction(x, i, r)

AllInUnit == \A i \in 1..N, r \in 1..R : InUnit(Entry(GivenArg, i, r))

(* b is tie_break(n / d), by the defining property of each rounding *)
IsRounded(tb, b, n, d) ==
    CASE tb = "floor" -> b * d <= n /\ n < (b + 1) * d
      [] tb = "ceil"  -> (b - 1) * d < n /\ n <= b * d
      [] tb = "trunc" -> IF n >= 0 THEN b * d <= n /\ n < (b + 1) * d
                         ELSE (b - 1) * d < n /\ n <= b * d
      [] tb = "rint"  -> LET diff == 2 * (n - b * d)
                         IN  /\ -d <= diff /\ diff <= d
                             /\ (diff = d \/ diff = -d) => b % 2 = 0

(* the before count the documentation promises for (i, r) *)
IsBeforeCount(b, i, r) ==
    LET f == BeforeFraction(i, r)
    IN  IsRounded(tie_break, b, Missing(i, r) * f.num, f.den)

Shift(idx, w) == [r \in DOMAIN idx |-> idx[r] + w[r][1]]

InBlock(idx, i) ==
    \A r \in 1..R : pad[i][r][1] <= idx[r] /\ idx[r] < pad[i][r][1] + Size(i, r)

(* C1: with fractions in [0, 1] and tie_break floor or ceil the call does  *)
(* not fail, returns one array per input, and every returned array has the *)
(* per-axis maximum of the input shapes as its shape                       *)
C1_ShapeIsMax ==
    (AllInUnit /\ tie_break \in {"floor", "ceil"}) =>
        /\ pc # "failed"
        /\ pc = "done" =>
             /\ ret.kind = "list"
             /\ Len(ret.arrays) = N
             /\ \A i \in 1..N :
                  /\ Len(ret.arrays[i].shape) = R
                  /\ \A r \in 1..R : ret.arrays[i].shape[r] = Target(r)

C1_Witness ==
    /\ pc = "done"
    /\ AllInUnit
    /\ tie_break = "ceil"
    /\ N = 2 /\ R = 2
    /\ ~AtTarget(1) /\ ~AtTarget(2)
    /\ \E r \in 1..R : pad[1][r][1] > 0 /\ pad[1][r][2] > 0

(* C2: output i holds input i unchanged as a block that starts at the      *)
(* before count on every axis, and every cell outside the block is the     *)
(* fill value; outputs come in input order                                 *)
C2_DataPreserved ==
    pc = "done" =>
        \A i \in 1..N :
            LET x == arrays[i]
                y == ret.arrays[i]
            IN  /\ \A idx \in DOMAIN x.data :
                      /\ Shift(idx, pad[i]) \in DOMAIN y.data
                      /\ y.data[Shift(idx, pad[i])] = x.data[idx]
                /\ \A idx \in DOMAIN y.data :
                      ~InBlock(idx, i) => y.data[idx] = value

C2_Witness ==
    /\ pc = "done"
    /\ value = 9
    /\ N = 2 /\ R = 2
    /\ \E i \in 1..N :
          /\ \A r \in 1..R : pad[i][r][1] > 0 /\ Size(i, r) > 0
          /\ \E idx \in DOMAIN ret.arrays[i].data : ret.arrays[i].data[idx] = 9

(* C3: before count + after count is the target size minus the original    *)
(* size, for every array and axis, whatever the fraction and tie_break     *)
C3_MarginConserved ==
    Planned =>
        \A i \in 1..N, r \in 1..R :
            pad[i][r][1] + pad[i][r][2] = Target(r) - Size(i, r)

C3_Witness ==
    /\ Planned
    /\ tie_break = "rint"
    /\ ~AllInUnit
    /\ \E i \in 1..N, r \in 1..R :
          Missing(i, r) > 0 /\ pad[i][r][1] # 0 /\ pad[i][r][2] # 0

(* C4: an array already at the target shape gets pad widths (0, 0) on      *)
(* every axis and comes back with the same shape and contents, whatever    *)
(* the fraction and the tie_break                                          *)
C4_ZeroMarginIdentity ==
    Planned =>
        \A i \in 1..N :
            AtTarget(i) =>
                /\ \A r \in 1..R : pad[i][r] = <<0, 0>>
                /\ pc = "done" => ret.arrays[i] = arrays[i]

C4_Witness ==
    /\ pc = "done"
    /\ tie_break = "ceil"
    /\ N = 2
    /\ AtTarget(1) /\ ~AtTarget(2)
    /\ Size(1, 1) > 0
    /\ GivenArg = ScalarArg(Half)

(* C5: the before-fraction is `before` when it is supplied (whatever       *)
(* `after` is), 1 - after when it is omitted; with before=None, after=1    *)
(* every before count is 0                                                 *)
C5_EffectiveFraction ==
    Planned =>
        \A i \in 1..N, r \in 1..R :
            /\ arg_before.form # "none" =>
                  SameFrac(before[i][r], Entry(arg_before, i, r))
            /\ arg_before.form = "none" =>
                  IsOneMinus(before[i][r], Entry(arg_after, i, r))
            /\ (arg_before.form = "none" /\ arg_after = ScalarArg(One)) =>
                  pad[i][r] = <<0, Missing(i, r)>>

C5_Witness ==
    /\ Planned
    /\ arg_before.form = "none"
    /\ arg_after = ScalarArg(One)
    /\ N = 2
    /\ \E i \in 1..N, r \in 1..R : pad[i][r] = <<0, 2>>

(* C6: the before count is tie_break(margin * before-fraction), the after  *)
(* count is the rest, whether the fraction came from `before` or `after`;  *)
(* floor gives the odd cell to the after side (5 -> 2 + 3, 3 -> 1 + 2),    *)
(* ceil to the before side (5 -> 3 + 2)                                    *)
C6_TieBreak ==
    Planned =>
        \A i \in 1..N, r \in 1..R :
            /\ IsBeforeCount(pad[i][r][1], i, r)
            /\ pad[i][r][2] = Missing(i, r) - pad[i][r][1]
            /\ SameFrac(BeforeFraction(i, r), Half) =>
                  /\ (Missing(i, r) = 5 /\ tie_break = "floor") => pad[i][r] = <<2, 3>>
                  /\ (Missing(i, r) = 3 /\ tie_break = "floor") => pad[i][r] = <<1, 2>>
                  /\ (Missing(i, r) = 5 /\ tie_break = "ceil") => pad[i][r] = <<3, 2>>

C6_Witness ==
    /\ Planned
    /\ arg_before.form = "none"
    /\ arg_after = ScalarArg(Half)
    /\ tie_break = "floor"
    /\ \E i \in 1..N : Missing(i, 1) = 5 /\ pad[i][1] = <<2, 3>>

(* the N x R matrix a fraction argument stands for *)
Expanded(arg) ==
    MatrixArg([i \in 1..N |-> [r \in 1..R |-> Entry(arg, i, r)]])

PlanOf(b, a) ==
    LET shp == Shapes(arrays)
        mg  == Margin(ShapeMax(shp), shp)
        pb  == PadBefore(mg, EffectiveBefore(b, a, N, R), tie_break)
    IN  Stack(pb, PadAfter(mg, pb))

(* C7: a scalar fraction serves every array and axis, a length-R vector    *)
(* gives entry r to axis r of every array, an N x R matrix gives entry     *)
(* [i, r] to axis r of array i; the pad plan is the one of the expanded    *)
(* N x R matrix                                                            *)
C7_FractionForms ==
    Planned =>
        /\ \A i \in 1..N, r \in 1..R : IsBeforeFraction(before[i][r], i, r)
        /\ arg_before.form # "none" => pad = PlanOf(Expanded(arg_before), arg_after)
        /\ arg_before.form = "none" => pad = PlanOf(arg_before, Expanded(arg_after))

C7_Witness ==
    /\ Planned
    /\ arg_before.form = "vector"
    /\ N = 2 /\ R = 2
    /\ arg_before.v[1] # arg_before.v[2]
    /\ \E i \in 1..N : pad[i][1] # pad[i][2]

WrongCount(i, r) ==
    LET f == BeforeFraction(i, r)
        m == Missing(i, r)
    IN  \E b \in (-2 * m - 1)..(2 * m + 1) :
            /\ IsRounded(tie_break, b, m * f.num, f.den)
            /\ (b < 0 \/ b > m)

(* C8 as stated: a fraction outside [0, 1] always makes the call fail      *)
C8_OutOfRangeAlwaysFails ==
    ~AllInUnit => pc # "done"

(* C8 as amended: no fraction is validated (the plan is always computed);  *)
(* the call fails exactly when some before count is negative or exceeds    *)
(* its margin, and returns the padded arrays otherwise                     *)
C8_FailsIffWrongCount ==
    /\ pc = "failed" => (pad # <<>> /\ ret.kind = "ValueError")
    /\ pc \in {"done", "failed"} =>
          (pc = "failed" <=> \E i \in 1..N, r \in 1..R : WrongCount(i, r))

C8_Witness ==
    /\ pc = "failed"
    /\ ~AllInUnit
    /\ tie_break = "floor"
    /\ \E i \in 1..N, r \in 1..R : pad[i][r][2] < 0

(* C9: the call returns all N padded arrays or none: when np.pad rejects   *)
(* the widths of some array the call raises and hands back no array, also  *)
(* not those padded before it                                              *)
C9_AllOrNothing ==
    /\ ret.kind \in {"pending", "list", "ValueError"}
    /\ ret.kind = "list" => (pc = "done" /\ Len(ret.arrays) = N)
    /\ ret.kind # "list" => ret.arrays = <<>>
    /\ pc = "failed" => ret.kind = "ValueError"
    /\ pc = "done" => (ret.kind = "list" /\ \A k \in 1..N : ~PadRejects(pad[k]))
    /\ (Planned /\ \E k \in 1..N : PadRejects(pad[k])) => pc \in {"pad", "failed"}

C9_Witness ==
    /\ pc = "failed"
    /\ N = 2
    /\ ~PadRejects(pad[1])
    /\ PadRejects(pad[2])
    /\ ret.arrays = <<>>

(* C10: with fractions in [0, 1] and tie_break floor or ceil every pad     *)
(* width is a non-negative integer: 0 <= before <= margin and after >= 0   *)
C10_WidthsNonNegative ==
    (Planned /\ AllInUnit /\ tie_break \in {"floor", "ceil"}) =>
        \A i \in 1..N, r \in 1..R :
            /\ pad[i][r][1] \in 0..Missing(i, r)
            /\ pad[i][r][2] \in Nat

C10_Witness ==
    /\ Planned
    /\ tie_break = "ceil"
    /\ GivenArg = ScalarArg(ThreeQuarters)
    /\ \E i \in 1..N, r \in 1..R : Missing(i, r) = 1 /\ pad[i][r] = <<1, 0>>

====
